---- MODULE Spec2Model ----
(***************************************************************************)
(* The wallet's secure-vault actor protocol (src/src/stronghold.rs).       *)
(*                                                                         *)
(* Callers use the public async functions (load_or_create, get_accounts,   *)
(* get_account, store_account, remove_account); each `ask`s the            *)
(* WalletStronghold actor, which handles one Request per message, sends    *)
(* SHRequests to the stronghold client actor, and blocks in                *)
(* wait_for_result! on an mpsc channel that the StrongholdResultReceiver   *)
(* actor feeds with the client's SHResults.                                *)
(*                                                                         *)
(* Strings are sequences of bytes (a Rust String is its UTF-8 bytes).      *)
(* Option<VaultId> is a natural number, NoVault (0) being None.            *)
(***************************************************************************)
EXTENDS Integers, Sequences, FiniteSets, TLC

\* ------------------------------------------------------------------ bounds

\* number of calls the callers make in one run
MaxAsks == 3

\* ------------------------------------------------------- program constants

\* account_id_str.as_bytes()[0..24]
RecordIdLen == 24

\* Option::None of seed_vault / accounts_vault
NoVault == 0

SEED_HINT == "IOTA_WALLET_SEED"

ACCOUNT_HINT == "IOTA_WALLET_ACCOUNT"

\* ------------------------------------------------------------ input domains

Rep(b, n) == [i \in 1..n |-> b]

\* two 25-byte ids that agree on their first 24 bytes, a 24-byte id with
\* another prefix, and an id shorter than 24 bytes
IdA == Rep(97, RecordIdLen) \o <<49>>

IdB == Rep(97, RecordIdLen) \o <<50>>

IdC == Rep(98, RecordIdLen)

IdShort == <<97, 98, 99>>

\* AccountIdentifier::Id(String) | AccountIdentifier::Index(usize)
AccountId(s) == [tag |-> "Id", id |-> s, index |-> 0]

AccountIndex(i) == [tag |-> "Index", id |-> <<>>, index |-> i]

AccountIdentifiers ==
    {AccountId(IdA), AccountId(IdB), AccountId(IdC), AccountId(IdShort), AccountIndex(0)}

\* serialized accounts handed to store_account ("x", "y")
Payloads == {<<120>>, <<121>>}

\* "p1" exists on disk (written with password "pw1"), "p2" does not
Paths == {"p1", "p2"}

Passwords == {"pw1", "pw2"}

\* ------------------------------------------------------------------ messages

NoAccountId == AccountIndex(0)

\* enum Request
Request(type, path, password, account_id, account) ==
    [type |-> type, path |-> path, password |-> password,
     account_id |-> account_id, account |-> account]

\* enum SHRequest, as the actor sends it to the stronghold client
SHRequest(type, path, password, vault, rid, data, hint) ==
    [type |-> type, path |-> path, password |-> password, vault |-> vault,
     rid |-> rid, data |-> data, hint |-> hint]

SHReadSnapshot(password, path) == SHRequest("ReadSnapshot", path, password, NoVault, <<>>, <<>>, "")

SHListIds(vault) == SHRequest("ListIds", "", "", vault, <<>>, <<>>, "")

SHCreateNewVault == SHRequest("CreateNewVault", "", "", NoVault, <<>>, <<>>, "")

SHReadData(vault, rid) == SHRequest("ReadData", "", "", vault, rid, <<>>, "")

SHWriteData(vault, rid, data, hint) == SHRequest("WriteData", "", "", vault, rid, data, hint)

SHRevokeData(vault, rid) == SHRequest("RevokeData", "", "", vault, rid, <<>>, "")

\* enum SHResults, as the stronghold client publishes it on the "external" topic
SHResults(type, vault, vaults, records, record) ==
    [type |-> type, vault |-> vault, vaults |-> vaults, records |-> records,
     record |-> record]

\* enum StrongholdResult, as it travels through the mpsc channel
StrongholdResult(type, vault, vaults, records, record) ==
    [type |-> type, vault |-> vault, vaults |-> vaults, records |-> records,
     record |-> record]

\* enum StrongholdResponse (and the absence of one)
StrongholdResponse(type, account, accounts) ==
    [type |-> type, account |-> account, accounts |-> accounts]

NoResponse == StrongholdResponse("", <<>>, <<>>)

\* #[error(..)] of enum Error: what e.to_string() yields.  Timeout prints the
\* RecvTimeoutError between backticks; the payload of UnexpectedResult, the
\* text of the result, is left out
to_string(e) ==
    CASE e = "Timeout" -> "`timed out waiting on channel`"
      [] e = "InvalidAccountIdentifier" -> "account id isn't a valid record hint"
      [] e = "AccountIdMustBeString" -> "must provide account id instead of string"
      [] e = "AccountNotFound" -> "account not found"
      [] e = "EmptySnapshot" -> "snapshot doesn't have accounts"
      [] e = "UnexpectedResult" -> "unexpected stronghold response type"
      [] OTHER -> "failed to perform action"

\* what the asker receives: Result<StrongholdResponse, String>
Reply(kind, resp, err) == [kind |-> kind, resp |-> resp, err |-> err]

NoReply == Reply("None", NoResponse, "")

ReplyOk(resp) == Reply("Ok", resp, "")

\* res.map_err(|e| e.to_string())
ReplyErr(e) == Reply("Err", NoResponse, to_string(e))

\* ------------------------------------------------------------------ state

VARIABLES
    asks,            \* every call made so far: [fn, req, st, reply]
    mailbox,         \* WalletStronghold's mailbox: ask ids, FIFO
    pc,              \* where the actor's thread is
    cur,             \* the ask being handled (0: none)
    seed_vault,      \* WalletStronghold.seed_vault
    accounts_vault,  \* WalletStronghold.accounts_vault
    it_vaults,       \* LoadSnapshot: vaults.iter(), the vaults not yet listed
    it_pairs,        \* GetAccounts: record_pairs not yet visited
    accounts,        \* GetAccounts: let mut accounts
    guards,          \* MutexGuards of result_rx the actor's thread holds
    poisoned,        \* the result_rx mutex is poisoned
    passwords,       \* PASSWORD_STORE
    sh_queue,        \* the stronghold client's mailbox: SHRequests, FIFO
    external,        \* SHResults published, not yet received by the receiver
    result_ch,       \* the mpsc channel result_tx -> result_rx
    sh_vaults,       \* the stronghold client's vaults
    sh_records,      \* and their records: [vault, id, hint, data]
    sh_next,         \* the next fresh VaultId
    disk,            \* the snapshot file at "p1"
    seed_by,         \* the ask whose handler assigned seed_vault (0: none)
    accounts_by      \* the ask whose handler assigned accounts_vault (0: none)

actor_vars == <<pc, cur, seed_vault, accounts_vault, it_vaults, it_pairs, accounts,
                guards, poisoned, seed_by, accounts_by>>

store_vars == <<sh_queue, external, sh_vaults, sh_records, sh_next, disk>>

\* the vault actor, its callers and the stronghold client
stronghold_vars == <<asks, mailbox, actor_vars, passwords, result_ch, store_vars>>

\* the account of account/sync/mod.rs, the storage adapter and the ledger
VARIABLES
    local_account,   \* the Account the caller holds: [addresses, messages]
    storage,         \* the snapshot the storage adapter holds for the account
    ledger,          \* the ledger the client talks to: [outputs, txs, confirmed]
    task,            \* the execute() in progress, task.pc = "idle" if none
    log              \* the operations that ended: how many, and what the last did

wallet_vars == <<local_account, storage, ledger, task, log>>

vars == <<stronghold_vars, wallet_vars>>

\* snapshot files "p1" may hold: vaults 1 and 2, records [vault, id, hint, data]
SnapshotRecord(vault, id, hint, data) ==
    [vault |-> vault, id |-> id, hint |-> hint, data |-> data]

SeedRecordId == Rep(115, RecordIdLen)

DiskLayouts ==
    { [vaults |-> {}, records |-> {}],
      [vaults |-> {1}, records |-> {SnapshotRecord(1, SeedRecordId, SEED_HINT, <<1>>)}],
      [vaults |-> {1, 2},
       records |-> {SnapshotRecord(1, SeedRecordId, SEED_HINT, <<1>>),
                    SnapshotRecord(2, IdC, ACCOUNT_HINT, <<120>>)}],
      [vaults |-> {1}, records |-> {SnapshotRecord(1, IdC, ACCOUNT_HINT, <<120>>)}] }

\* snapshot_path.as_ref().exists()
Exists(path) == path = "p1"

DiskPassword == "pw1"

DiskVaultIds == {1, 2}

\* the first VaultId the client creates (VaultId::random never repeats one)
FirstFreshVault == Cardinality(DiskVaultIds) + 1

\* after actor_runtime(): ActorFactoryArgs::create_args, an empty channel,
\* an empty PASSWORD_STORE ("" is no entry)
ActorRuntime(snapshot) ==
    /\ asks = <<>>
    /\ mailbox = <<>>
    /\ pc = "idle"
    /\ cur = 0
    /\ seed_vault = NoVault
    /\ accounts_vault = NoVault
    /\ it_vaults = <<>>
    /\ it_pairs = <<>>
    /\ accounts = <<>>
    /\ guards = 0
    /\ poisoned = FALSE
    /\ passwords = [p \in Paths |-> ""]
    /\ sh_queue = <<>>
    /\ external = <<>>
    /\ result_ch = <<>>
    /\ sh_vaults = {}
    /\ sh_records = {}
    /\ sh_next = FirstFreshVault
    /\ disk = snapshot
    /\ seed_by = 0
    /\ accounts_by = 0

\* ------------------------------------------- accounts, storage and the ledger

\* address.rs, struct Address (the checksum is a function of the address)
Address(address, balance, key_index) ==
    [address |-> address, balance |-> balance, key_index |-> key_index]

\* a Message of the account: its id and the two flags
Message(message_id, broadcasted, confirmed) ==
    [message_id |-> message_id, broadcasted |-> broadcasted, confirmed |-> confirmed]

\* an Account, as far as sync and transfer use it
Account(addresses, messages) == [addresses |-> addresses, messages |-> messages]

\* an output the ledger holds for an address
Output(address, amount) == [address |-> address, amount |-> amount]

\* a message of the ledger: its id, its trunk and the address it touches
IotaMessage(id, trunk, address) == [id |-> id, trunk |-> trunk, address |-> address]

Ledger(outputs, txs, confirmed) ==
    [outputs |-> outputs, txs |-> txs, confirmed |-> confirmed]

\* no execute() is running
IdleTask ==
    [pc |-> "idle", address_index |-> 0, gap_limit |-> 0, skip_persistance |-> FALSE,
     generated_addresses |-> <<>>, found_transactions |-> <<>>, batches |-> <<>>,
     calls |-> <<>>]

\* no operation has ended
NoLog == [ops |-> 0, transfers |-> 0, synced |-> FALSE, since |-> <<>>, last |-> <<>>]

\* no account is in use
NoWallet ==
    /\ local_account = Account(<<>>, <<>>)
    /\ storage = Account(<<>>, <<>>)
    /\ ledger = Ledger(<<>>, {}, {})
    /\ task = IdleTask
    /\ log = NoLog

\* the vault actor and its callers, no account in use
Init ==
    /\ \E snapshot \in DiskLayouts : ActorRuntime(snapshot)
    /\ NoWallet

\* ------------------------------------------------------------------ callers

\* ask(&runtime.system, &runtime.stronghold_actor, message)
ask(fn, message) ==
    /\ Len(asks) < MaxAsks
    /\ asks' = Append(asks, [fn |-> fn, req |-> message, st |-> "queued", reply |-> NoReply])
    /\ mailbox' = Append(mailbox, Len(asks) + 1)
    /\ UNCHANGED <<wallet_vars, actor_vars, passwords, result_ch, store_vars>>

load_or_create ==
    \E path \in Paths, password \in Passwords :
        IF Exists(path)
        THEN ask("load_or_create", Request("LoadSnapshot", path, password, NoAccountId, <<>>))
        ELSE ask("load_or_create", Request("CreateSnapshot", path, password, NoAccountId, <<>>))

get_accounts ==
    ask("get_accounts", Request("GetAccounts", "", "", NoAccountId, <<>>))

get_account ==
    \E account_id \in AccountIdentifiers :
        ask("get_account", Request("GetAccount", "", "", account_id, <<>>))

store_account ==
    \E account_id \in AccountIdentifiers, account \in Payloads :
        ask("store_account", Request("StoreAccount", "", "", account_id, account))

\* unimplemented!(): the caller panics, no Request is sent
remove_account ==
    \E account_id \in AccountIdentifiers :
        /\ Len(asks) < MaxAsks
        /\ asks' = Append(asks, [fn |-> "remove_account",
                                 req |-> Request("RemoveAccount", "", "", account_id, <<>>),
                                 st |-> "unimplemented", reply |-> NoReply])
        /\ UNCHANGED <<wallet_vars, mailbox, actor_vars, passwords, result_ch, store_vars>>

\* a Request::RemoveAccount told to the actor (no public function sends one)
ask_RemoveAccount ==
    \E account_id \in AccountIdentifiers :
        ask("ask", Request("RemoveAccount", "", "", account_id, <<>>))

\* --------------------------------------------------------- the actor's thread

\* fn account_id_to_record_id: Ok(id), Err(e), or a panic of the slice [0..24]
account_id_to_record_id(account_id) ==
    IF account_id.tag = "Index"
    THEN [kind |-> "Err", id |-> <<>>, err |-> "AccountIdMustBeString"]
    ELSE IF Len(account_id.id) < RecordIdLen
         THEN [kind |-> "Panic", id |-> <<>>, err |-> ""]
         ELSE [kind |-> "Ok", id |-> SubSeq(account_id.id, 1, RecordIdLen), err |-> ""]

\* account.as_bytes().to_vec(): a String is its UTF-8 bytes
as_bytes(account) == account

\* the handler's view of self and of what it has told the client so far
Self ==
    [seed_vault |-> seed_vault, accounts_vault |-> accounts_vault,
     seed_by |-> seed_by, accounts_by |-> accounts_by,
     it_vaults |-> it_vaults, it_pairs |-> it_pairs, accounts |-> accounts,
     guards |-> guards, cur |-> cur, out |-> <<>>]

\* what was sent or produced for the request `by`: the message, and in `by`
\* the request in whose handler it originates.  The code's messages carry no
\* such mark; nothing in the model reads it but the claims about the origin
\* of a result.
Origin(m, by) == m @@ [by |-> by]

\* stronghold_client.try_tell(ClientMsg::SHRequest(m), None)
try_tell(s, m) == [s EXCEPT !.out = Append(@, Origin(m, s.cur))]

\* how a step of the handler ends: blocked in recv_timeout at `label`
\* ("wait"), returned ("return"), panicked, or blocked in lock() for ever
Outcome(kind, label, reply, s) == [kind |-> kind, pc |-> label, reply |-> reply, s |-> s]

Return(s, reply) == {Outcome("return", "idle", reply, s)}

Panic(s) == {Outcome("panic", "idle", NoReply, s)}

\* wait_for_result!: `$self.result_rx.lock().unwrap()`.  A poisoned mutex
\* makes unwrap panic.  A second lock() by the thread that holds the guard
\* never returns: std leaves open whether it blocks for ever or panics.
lock(s, label) ==
    IF poisoned
    THEN Panic(s)
    ELSE IF s.guards > 0
         THEN {Outcome("deadlock", "deadlock", NoReply, s)} \cup Panic(s)
         ELSE {Outcome("wait", label, NoReply, [s EXCEPT !.guards = @ + 1])}

\* clear_state that forgets to clear accounts_vault
clear_state_seed_only(s) ==
    [s EXCEPT !.seed_vault = NoVault, !.seed_by = 0]

\* fn clear_state
clear_state(s) ==
    [s EXCEPT !.seed_vault = NoVault, !.accounts_vault = NoVault,
              !.seed_by = 0, !.accounts_by = 0]

\* the step's effect on the actor, the asker and the client's mailbox.  A
\* return is sent to the asker (sender.try_tell).  A panic sends nothing,
\* poisons the mutex if a guard was held, and has the supervisor restart the
\* actor from create_args.  A thread blocked in lock() stays there.
Apply(o) ==
    /\ seed_vault' = IF o.kind = "panic" THEN NoVault ELSE o.s.seed_vault
    /\ accounts_vault' = IF o.kind = "panic" THEN NoVault ELSE o.s.accounts_vault
    /\ seed_by' = IF o.kind = "panic" THEN 0 ELSE o.s.seed_by
    /\ accounts_by' = IF o.kind = "panic" THEN 0 ELSE o.s.accounts_by
    /\ it_vaults' = IF o.kind \in {"wait", "deadlock"} THEN o.s.it_vaults ELSE <<>>
    /\ it_pairs' = IF o.kind \in {"wait", "deadlock"} THEN o.s.it_pairs ELSE <<>>
    /\ accounts' = IF o.kind \in {"wait", "deadlock"} THEN o.s.accounts ELSE <<>>
    /\ guards' = IF o.kind \in {"wait", "deadlock"} THEN o.s.guards ELSE 0
    /\ poisoned' = (poisoned \/ (o.kind = "panic" /\ o.s.guards > 0))
    /\ pc' = o.pc
    /\ sh_queue' = sh_queue \o o.s.out
    /\ asks' = CASE o.kind = "return" ->
                      [asks EXCEPT ![o.s.cur].st = "answered", ![o.s.cur].reply = o.reply]
                 [] o.kind = "panic" -> [asks EXCEPT ![o.s.cur].st = "panicked"]
                 [] OTHER -> [asks EXCEPT ![o.s.cur].st = "handling"]
    /\ cur' = IF o.kind \in {"wait", "deadlock"} THEN o.s.cur ELSE 0

store_rest == <<external, sh_vaults, sh_records, sh_next, disk>>

\* an actor that takes the next message while one is being handled
Idle_reentrant == pc # "deadlock"

\* impl Actor for WalletStronghold: recv(&mut self, ..) runs for one message
\* at a time, to completion
Idle == pc = "idle"

Receiving(type) ==
    /\ Idle
    /\ mailbox # <<>>
    /\ asks[Head(mailbox)].req.type = type

Msg == asks[Head(mailbox)].req

Begin == [Self EXCEPT !.cur = Head(mailbox)]

UnexpectedResult(s) == Return(s, ReplyErr("UnexpectedResult"))

HasHint(records, hint) == \E i \in 1..Len(records) : records[i].hint = hint

\* LoadSnapshot, after the loop over the vaults
LoadSnapshot_resolve(s) ==
    LET t == IF s.accounts_vault = NoVault
             THEN [s EXCEPT !.accounts_vault = s.seed_vault, !.accounts_by = s.cur]
             ELSE s
    IN  Return(t, ReplyOk(StrongholdResponse("LoadedSnapshot", <<>>, <<>>)))

LoadSnapshot_after(s) ==
    IF s.seed_vault = NoVault
    THEN lock(try_tell(s, SHCreateNewVault), "load_create")
    ELSE LoadSnapshot_resolve(s)

\* LoadSnapshot, `for vault in vaults.iter()`
LoadSnapshot_for(s) ==
    IF s.it_vaults # <<>>
    THEN lock(try_tell(s, SHListIds(Head(s.it_vaults))), "load_list")
    ELSE LoadSnapshot_after(s)

\* LoadSnapshot, the block run on ListIds(records); at its end the inner
\* guard is dropped
LoadSnapshot_listed(s, records) ==
    LET vault == Head(s.it_vaults)
        s1 == IF HasHint(records, SEED_HINT)
              THEN [s EXCEPT !.seed_vault = vault, !.seed_by = s.cur]
              ELSE s
        s2 == IF HasHint(records, ACCOUNT_HINT)
              THEN [s1 EXCEPT !.accounts_vault = vault, !.accounts_by = s.cur]
              ELSE s1
        s3 == [s2 EXCEPT !.guards = @ - 1]
    IN  IF s3.seed_vault # NoVault /\ s3.accounts_vault # NoVault
        THEN LoadSnapshot_after(s3)
        ELSE LoadSnapshot_for([s3 EXCEPT !.it_vaults = Tail(@)])

\* GetAccounts, `for (id, hint) in record_pairs`
RECURSIVE GetAccounts_for(_)
GetAccounts_for(s) ==
    IF s.it_pairs = <<>>
    THEN Return(s, ReplyOk(StrongholdResponse("Accounts", <<>>, s.accounts)))
    ELSE IF Head(s.it_pairs).hint = ACCOUNT_HINT
         THEN lock(try_tell(s, SHReadData(s.accounts_vault, Head(s.it_pairs).id)), "accs_read")
         ELSE GetAccounts_for([s EXCEPT !.it_pairs = Tail(@)])

\* CreateSnapshot that sets the seed vault only
CreateSnapshot_created_seed_only(s, vault_id) ==
    [s EXCEPT !.seed_vault = vault_id, !.seed_by = s.cur]

\* CreateSnapshot, the block run on CreatedVault(vault_id)
CreateSnapshot_created(s, vault_id) ==
    [s EXCEPT !.seed_vault = vault_id, !.seed_by = s.cur,
              !.accounts_vault = vault_id, !.accounts_by = s.cur]

\* the block `$b` (or the else branch) of the wait_for_result! at `label`,
\* run on `result` with the guard of that wait still held
Block(label, result, s) ==
    CASE label = "load_read" ->
            IF result.type = "ReadSnapshot"
            THEN LoadSnapshot_for([s EXCEPT !.it_vaults = result.vaults])
            ELSE UnexpectedResult(s)
      [] label = "load_list" ->
            IF result.type = "ListIds"
            THEN LoadSnapshot_listed(s, result.records)
            ELSE UnexpectedResult(s)
      [] label = "load_create" ->
            IF result.type = "CreatedVault"
            THEN LoadSnapshot_resolve([s EXCEPT !.seed_vault = result.vault,
                                                !.seed_by = s.cur, !.guards = @ - 1])
            ELSE UnexpectedResult(s)
      [] label = "create_wait" ->
            IF result.type = "CreatedVault"
            THEN Return(CreateSnapshot_created(s, result.vault),
                        ReplyOk(StrongholdResponse("CreatedSnapshot", <<>>, <<>>)))
            ELSE UnexpectedResult(s)
      [] label = "get_wait" ->
            IF result.type = "ReadRecord"
            THEN Return(s, ReplyOk(StrongholdResponse("Account", result.record, <<>>)))
            ELSE Return(s, ReplyErr("AccountNotFound"))
      [] label = "accs_list" ->
            IF result.type = "ListIds"
            THEN GetAccounts_for([s EXCEPT !.it_pairs = result.records, !.accounts = <<>>])
            ELSE UnexpectedResult(s)
      [] label = "accs_read" ->
            IF result.type = "ReadRecord"
            THEN GetAccounts_for([s EXCEPT !.accounts = Append(@, result.record),
                                           !.it_pairs = Tail(@), !.guards = @ - 1])
            ELSE Return(s, ReplyErr("AccountNotFound"))

WaitLabels ==
    {"load_read", "load_list", "load_create", "create_wait", "get_wait",
     "accs_list", "accs_read"}

\* set_password that keeps the entry a path already has
set_password_keep_first(store, snapshot_path, password) ==
    IF store[snapshot_path] = ""
    THEN [store EXCEPT ![snapshot_path] = password]
    ELSE store

\* fn set_password: passwords.insert(path, password) replaces the entry
set_password(store, snapshot_path, password) ==
    [store EXCEPT ![snapshot_path] = password]

\* fn get_password: the entry's clone, "" standing for None
get_password(snapshot_path) == passwords[snapshot_path]

\* Request::LoadSnapshot, up to its first wait_for_result!
LoadSnapshot ==
    /\ Receiving("LoadSnapshot")
    /\ mailbox' = Tail(mailbox)
    /\ passwords' = set_password(passwords, Msg.path, Msg.password)
    /\ \E o \in lock(try_tell(clear_state(Begin), SHReadSnapshot(Msg.password, Msg.path)),
                     "load_read") : Apply(o)
    /\ UNCHANGED <<wallet_vars, result_ch, store_rest>>

\* Request::CreateSnapshot, up to its wait_for_result!
CreateSnapshot ==
    /\ Receiving("CreateSnapshot")
    /\ mailbox' = Tail(mailbox)
    /\ passwords' = set_password(passwords, Msg.path, Msg.password)
    /\ \E o \in lock(try_tell(clear_state(Begin), SHCreateNewVault), "create_wait") : Apply(o)
    /\ UNCHANGED <<wallet_vars, result_ch, store_rest>>

\* Request::GetAccount: self.accounts_vault.unwrap() is evaluated first,
\* then account_id_to_record_id(account_id)?
GetAccount_begin(s, account_id) ==
    LET id == account_id_to_record_id(account_id)
    IN  IF s.accounts_vault = NoVault THEN Panic(s)
        ELSE IF id.kind = "Panic" THEN Panic(s)
        ELSE IF id.kind = "Err" THEN Return(s, ReplyErr(id.err))
        ELSE lock(try_tell(s, SHReadData(s.accounts_vault, id.id)), "get_wait")

GetAccount ==
    /\ Receiving("GetAccount")
    /\ mailbox' = Tail(mailbox)
    /\ \E o \in GetAccount_begin(Begin, Msg.account_id) : Apply(o)
    /\ UNCHANGED <<wallet_vars, passwords, result_ch, store_rest>>

\* Request::GetAccounts: self.accounts_vault.ok_or_else(|| Error::EmptySnapshot)?
GetAccounts_begin(s) ==
    IF s.accounts_vault = NoVault
    THEN Return(s, ReplyErr("EmptySnapshot"))
    ELSE lock(try_tell(s, SHListIds(s.accounts_vault)), "accs_list")

GetAccounts ==
    /\ Receiving("GetAccounts")
    /\ mailbox' = Tail(mailbox)
    /\ \E o \in GetAccounts_begin(Begin) : Apply(o)
    /\ UNCHANGED <<wallet_vars, passwords, result_ch, store_rest>>

\* Request::StoreAccount: unwrap, then account_id_to_record_id(account_id)?,
\* then the write is told and not waited for
StoreAccount_begin(s, account_id, account) ==
    LET id == account_id_to_record_id(account_id)
    IN  IF s.accounts_vault = NoVault THEN Panic(s)
        ELSE IF id.kind = "Panic" THEN Panic(s)
        ELSE IF id.kind = "Err" THEN Return(s, ReplyErr(id.err))
        ELSE Return(try_tell(s, SHWriteData(s.accounts_vault, id.id, as_bytes(account),
                                            ACCOUNT_HINT)),
                    ReplyOk(StrongholdResponse("StoredAccount", <<>>, <<>>)))

StoreAccount ==
    /\ Receiving("StoreAccount")
    /\ mailbox' = Tail(mailbox)
    /\ \E o \in StoreAccount_begin(Begin, Msg.account_id, Msg.account) : Apply(o)
    /\ UNCHANGED <<wallet_vars, passwords, result_ch, store_rest>>

\* Request::RemoveAccount: account_id_to_record_id(account_id)? first, then
\* unwrap; the revoke is told and not waited for
RemoveAccount_begin(s, account_id) ==
    LET id == account_id_to_record_id(account_id)
    IN  IF id.kind = "Panic" THEN Panic(s)
        ELSE IF id.kind = "Err" THEN Return(s, ReplyErr(id.err))
        ELSE IF s.accounts_vault = NoVault THEN Panic(s)
        ELSE Return(try_tell(s, SHRevokeData(s.accounts_vault, id.id)),
                    ReplyOk(StrongholdResponse("RemovedAccount", <<>>, <<>>)))

RemoveAccount ==
    /\ Receiving("RemoveAccount")
    /\ mailbox' = Tail(mailbox)
    /\ \E o \in RemoveAccount_begin(Begin, Msg.account_id) : Apply(o)
    /\ UNCHANGED <<wallet_vars, passwords, result_ch, store_rest>>

\* wait_for_result!: recv_timeout(TIMEOUT) yields a result
wait_for_result ==
    /\ pc \in WaitLabels
    /\ result_ch # <<>>
    /\ result_ch' = Tail(result_ch)
    /\ \E o \in Block(pc, Head(result_ch), Self) : Apply(o)
    /\ UNCHANGED <<wallet_vars, mailbox, passwords, store_rest>>

\* wait_for_result!: recv_timeout(TIMEOUT)? after 500 ms without a result
recv_timeout ==
    /\ pc \in WaitLabels
    /\ result_ch = <<>>
    /\ \E o \in Return(Self, ReplyErr("Timeout")) : Apply(o)
    /\ UNCHANGED <<wallet_vars, mailbox, passwords, result_ch, store_rest>>

\* ------------------------------------------- the stronghold client (external)

RECURSIVE Perms(_)
\* the orders in which a collection without a defined order may be listed
Perms(S) ==
    IF S = {} THEN {<<>>}
    ELSE UNION {{<<x>> \o p : p \in Perms(S \ {x})} : x \in S}

ClientEffect(vaults, records, next, publish) ==
    [vaults |-> vaults, records |-> records, next |-> next, publish |-> publish]

Unchanged(publish) == ClientEffect(sh_vaults, sh_records, sh_next, publish)

RecordsOf(vault) == {r \in sh_records : r.vault = vault}

\* what the client does with one SHRequest, and the SHResults it publishes:
\*   ReadSnapshot   rebuilds its vaults from the file and returns them
\*                  (ReturnRebuild); nothing on a wrong password or no file
\*   CreateNewVault returns a fresh vault (ReturnCreate)
\*   ListIds        returns the (id, hint) pairs of the vault (ReturnList)
\*   ReadData       returns the record (ReturnRead); for a record that does
\*                  not exist, nothing or an empty record
\*   WriteData, RevokeData   write and remove the record, and return nothing
ClientEffects(m) ==
    CASE m.type = "ReadSnapshot" ->
            IF Exists(m.path) /\ m.password = DiskPassword
            THEN {ClientEffect(disk.vaults, disk.records, sh_next,
                               <<SHResults("ReturnRebuild", NoVault, vs, <<>>, <<>>)>>) :
                     vs \in Perms(disk.vaults)}
            ELSE {Unchanged(<<>>)}
      [] m.type = "CreateNewVault" ->
            {ClientEffect(sh_vaults \cup {sh_next}, sh_records, sh_next + 1,
                          <<SHResults("ReturnCreate", sh_next, <<>>, <<>>, <<>>)>>)}
      [] m.type = "ListIds" ->
            IF m.vault \in sh_vaults
            THEN {Unchanged(<<SHResults("ReturnList", NoVault, <<>>, ps, <<>>)>>) :
                     ps \in Perms({[id |-> r.id, hint |-> r.hint] : r \in RecordsOf(m.vault)})}
            ELSE {Unchanged(<<>>)}
      [] m.type = "ReadData" ->
            IF \E r \in RecordsOf(m.vault) : r.id = m.rid
            THEN {Unchanged(<<SHResults("ReturnRead", NoVault, <<>>, <<>>, r.data)>>) :
                     r \in {q \in RecordsOf(m.vault) : q.id = m.rid}}
            ELSE {Unchanged(<<>>),
                  Unchanged(<<SHResults("ReturnRead", NoVault, <<>>, <<>>, <<>>)>>)}
      [] m.type = "WriteData" ->
            IF m.vault \in sh_vaults
            THEN {ClientEffect(sh_vaults,
                               {r \in sh_records : ~(r.vault = m.vault /\ r.id = m.rid)}
                                   \cup {SnapshotRecord(m.vault, m.rid, m.hint, m.data)},
                               sh_next, <<>>)}
            ELSE {Unchanged(<<>>)}
      [] m.type = "RevokeData" ->
            {ClientEffect(sh_vaults,
                          {r \in sh_records : ~(r.vault = m.vault /\ r.id = m.rid)},
                          sh_next, <<>>)}

stronghold_client ==
    /\ sh_queue # <<>>
    /\ sh_queue' = Tail(sh_queue)
    /\ \E e \in ClientEffects(Head(sh_queue)) :
          /\ sh_vaults' = e.vaults
          /\ sh_records' = e.records
          /\ sh_next' = e.next
          /\ external' = external \o [k \in DOMAIN e.publish |->
                                          Origin(e.publish[k], Head(sh_queue).by)]
    /\ UNCHANGED <<wallet_vars, asks, mailbox, actor_vars, passwords, result_ch, disk>>

\* ------------------------------------------------ StrongholdResultReceiver

\* receive_response: the StrongholdResult sent for an SHResults (none for
\* ReturnInit)
receive_response_result(msg) ==
    CASE msg.type = "ReturnRebuild" ->
            <<StrongholdResult("ReadSnapshot", NoVault, msg.vaults, <<>>, <<>>)>>
      [] msg.type = "ReturnList" ->
            <<StrongholdResult("ListIds", NoVault, <<>>, msg.records, <<>>)>>
      [] msg.type = "ReturnCreate" ->
            <<StrongholdResult("CreatedVault", msg.vault, <<>>, <<>>, <<>>)>>
      [] msg.type = "ReturnInit" -> <<>>
      [] msg.type = "ReturnRead" ->
            <<StrongholdResult("ReadRecord", NoVault, <<>>, <<>>, msg.record)>>

receive_response ==
    /\ external # <<>>
    /\ external' = Tail(external)
    /\ result_ch' = result_ch \o [k \in DOMAIN receive_response_result(Head(external)) |->
                                    Origin(receive_response_result(Head(external))[k],
                                           Head(external).by)]
    /\ UNCHANGED <<wallet_vars, asks, mailbox, actor_vars, passwords, sh_queue, sh_vaults,
                   sh_records, sh_next, disk>>

\* --------------------------------------------------------------- the system

Next ==
    \/ load_or_create
    \/ get_accounts
    \/ get_account
    \/ store_account
    \/ remove_account
    \/ ask_RemoveAccount
    \/ LoadSnapshot
    \/ CreateSnapshot
    \/ GetAccount
    \/ GetAccounts
    \/ StoreAccount
    \/ RemoveAccount
    \/ wait_for_result
    \/ recv_timeout
    \/ stronghold_client
    \/ receive_response

Spec == Init /\ [][Next]_vars

\* the steps of the actor's thread
ActorStep ==
    \/ LoadSnapshot
    \/ CreateSnapshot
    \/ GetAccount
    \/ GetAccounts
    \/ StoreAccount
    \/ RemoveAccount
    \/ wait_for_result
    \/ recv_timeout

\* the runs in which the client answers within TIMEOUT whenever it answers at
\* all: a wait times out only when no SHRequest and no SHResults is in flight
InFlight == sh_queue # <<>> \/ external # <<>>

recv_timeout_unanswered ==
    /\ ~InFlight
    /\ recv_timeout

NextPrompt ==
    \/ load_or_create
    \/ get_accounts
    \/ get_account
    \/ store_account
    \/ remove_account
    \/ ask_RemoveAccount
    \/ LoadSnapshot
    \/ CreateSnapshot
    \/ GetAccount
    \/ GetAccounts
    \/ StoreAccount
    \/ RemoveAccount
    \/ wait_for_result
    \/ recv_timeout_unanswered
    \/ stronghold_client
    \/ receive_response

SpecPrompt == Init /\ [][NextPrompt]_vars

\* ------------------------------------------------------ the public functions

\* String::from_utf8_lossy(&bytes).to_string(): bytes below 128 are ASCII and
\* kept; 255 is in no UTF-8 sequence and becomes U+FFFD (EF BF BD)
RECURSIVE from_utf8_lossy(_)
from_utf8_lossy(bytes) ==
    IF bytes = <<>> THEN <<>>
    ELSE (IF Head(bytes) < 128 THEN <<Head(bytes)>> ELSE <<239, 191, 189>>)
             \o from_utf8_lossy(Tail(bytes))

\* the Result a public function returns for the reply to its ask
PublicResult(kind, err, value, values) ==
    [kind |-> kind, err |-> err, value |-> value, values |-> values]

\* Err(Error::FailedToPerformAction(text))
FailedToPerformAction(text) ==
    PublicResult("Err", [kind |-> "FailedToPerformAction", text |-> text], <<>>, <<>>)

\* load_or_create, get_accounts, get_account, store_account: the reply's Err
\* is wrapped by map_err(|e| Error::FailedToPerformAction(e)), the expected
\* response is unpacked, any other becomes FailedToPerformAction(Debug text)
public_result(fn, req, reply) ==
    LET expected ==
            CASE fn = "load_or_create" /\ req.type = "LoadSnapshot" -> "LoadedSnapshot"
              [] fn = "load_or_create" /\ req.type = "CreateSnapshot" -> "CreatedSnapshot"
              [] fn = "get_accounts" -> "Accounts"
              [] fn = "get_account" -> "Account"
              [] fn = "store_account" -> "StoredAccount"
              [] OTHER -> ""
    IN  IF reply.kind = "Err" THEN FailedToPerformAction(reply.err)
        ELSE IF reply.resp.type # expected THEN FailedToPerformAction(reply.resp.type)
        ELSE PublicResult("Ok", [kind |-> "", text |-> ""],
                          from_utf8_lossy(reply.resp.account),
                          [i \in 1..Len(reply.resp.accounts) |->
                              from_utf8_lossy(reply.resp.accounts[i])])

\* ------------------------------------------------------------------- history

Asked == 1..Len(asks)

Type(a) == asks[a].req.type

\* the asks that reached the actor's mailbox are handled in the order asked
Taken(a) == asks[a].st \in {"handling", "answered", "panicked"}

Answered(a) == asks[a].st = "answered"

Succeeded(a) == Answered(a) /\ asks[a].reply.kind = "Ok"

Failed(a, e) == Answered(a) /\ asks[a].reply = ReplyErr(e)

IsBootstrap(a) == Type(a) \in {"LoadSnapshot", "CreateSnapshot"}

\* the handling of ask a has ended: it was answered, or its handler panicked
Ended(a) == asks[a].st \in {"answered", "panicked"}

\* the bootstraps taken before ask a
BootstrapsBefore(a) == {b \in Asked : b < a /\ IsBootstrap(b) /\ Taken(b)}

\* ask a is handled with the accounts vault resolved by bootstrap b: b is the
\* last bootstrap before a, it succeeded, and no handler panicked in between
ResolvedFor(a, b) ==
    /\ b \in BootstrapsBefore(a)
    /\ \A c \in BootstrapsBefore(a) : c <= b
    /\ Succeeded(b)
    /\ \A k \in Asked : (b < k /\ k < a) => asks[k].st # "panicked"

HasVault(a) == \E b \in Asked : ResolvedFor(a, b)

SameId(a, b) == asks[a].req.account_id = asks[b].req.account_id

Timeouts == {ReplyErr("Timeout")}

\* ------------------------------------------------------------------------ C1

\* the StoreAccount and RemoveAccount requests for the account id of ask g
\* handled between bootstrap b and g
WritesBefore(g, b) ==
    {i \in Asked : b < i /\ i < g /\ SameId(i, g)
                   /\ Type(i) \in {"StoreAccount", "RemoveAccount"} /\ Taken(i)}

\* C1: after a successful bootstrap, StoreAccount(A, x) followed by
\* GetAccount(A) returns exactly x, for every account id A and payload x, and
\* GetAccount(B) for an id B that was never stored fails with AccountNotFound
\* rather than returning data.  (Stated for the ids that have a record id,
\* Id strings of 24 bytes or more; a wait that times out, and an empty record
\* returned for one that does not exist, are let pass.)
C1_StoreThenGet ==
    \A g \in Asked : \A b \in Asked :
        (/\ Type(g) = "GetAccount"
         /\ account_id_to_record_id(asks[g].req.account_id).kind = "Ok"
         /\ ResolvedFor(g, b)
         /\ Ended(g))
        => LET ws == WritesBefore(g, b)
               last == CHOOSE i \in ws : \A j \in ws : j <= i
           IN  IF ws = {}
               THEN asks[g].reply \in
                         {ReplyErr("AccountNotFound"),
                          ReplyOk(StrongholdResponse("Account", <<>>, <<>>))} \cup Timeouts
               ELSE (Type(last) = "StoreAccount")
                    => asks[g].reply \in
                         {ReplyOk(StrongholdResponse("Account", asks[last].req.account, <<>>))}
                             \cup Timeouts

\* ------------------------------------------------------------------------ C2

NeedsVault == {"GetAccount", "GetAccounts", "StoreAccount", "RemoveAccount"}

\* C2: while no accounts vault is resolved, GetAccount, GetAccounts,
\* StoreAccount and RemoveAccount each answer EmptySnapshot and send nothing
\* to the secure store; none panics on the absent vault identifier.
C2_FailFastWithoutVault ==
    [][\A type \in NeedsVault :
          (Receiving(type) /\ mailbox' = Tail(mailbox) /\ accounts_vault = NoVault)
          => /\ asks'[Head(mailbox)].st = "answered"
             /\ asks'[Head(mailbox)].reply = ReplyErr("EmptySnapshot")
             /\ sh_queue' = sh_queue]_vars

\* a GetAccount taken before any bootstrap has panicked on unwrap()
C2_Panicked ==
    \E a \in Asked :
        /\ Type(a) = "GetAccount"
        /\ asks[a].st = "panicked"
        /\ BootstrapsBefore(a) = {}
        /\ account_id_to_record_id(asks[a].req.account_id).kind = "Ok"

\* ------------------------------------------------------------------------ C4

\* C4: once a LoadSnapshot or CreateSnapshot is being handled or has ended
\* (answered, failed, timed out), neither vault identifier holds a value an
\* earlier bootstrap resolved.
C4_NoStaleVault ==
    \A b \in Asked :
        (IsBootstrap(b) /\ Taken(b))
        => /\ seed_vault # NoVault => seed_by >= b
           /\ accounts_vault # NoVault => accounts_by >= b

\* a bootstrap that resolved both identifiers was followed by one that failed
C4_Reloaded ==
    \E b1 \in Asked, b2 \in Asked :
        /\ b1 < b2
        /\ IsBootstrap(b1) /\ Succeeded(b1)
        /\ IsBootstrap(b2) /\ Answered(b2) /\ asks[b2].reply.kind = "Err"
        /\ seed_vault = NoVault
        /\ accounts_vault = NoVault

\* ------------------------------------------------------------------------ C3

\* C3: every request sent to the actor is eventually answered (with its
\* success response, an error or a timeout); a LoadSnapshot that has to list
\* a vault or create one, and a GetAccounts that has to read a record, do not
\* block the actor for ever.  Stated on finite runs: a request the actor is
\* handling is one whose handler can take its next step, the result's arrival
\* or the timeout.  (A handler that panicked is let pass here.)
C3_EveryRequestAnswered ==
    \A a \in Asked :
        asks[a].st = "handling" => (cur = a /\ ENABLED ActorStep)

\* a LoadSnapshot that received the snapshot's vaults is blocked in the
\* lock() of its nested wait_for_result!
C3_BlockedInNestedWait ==
    /\ pc = "deadlock"
    /\ cur \in Asked
    /\ Type(cur) = "LoadSnapshot"
    /\ guards > 0

\* ------------------------------------------------------------------------ C5

\* the vaults of the snapshot that hold a record with the hint
DiskVaultsWith(hint) == {r.vault : r \in {q \in disk.records : q.hint = hint}}

LoadSnapshotNeverSucceeds ==
    \A a \in Asked : ~(Type(a) = "LoadSnapshot" /\ Succeeded(a))

\* ------------------------------------------------------------------------ C6

\* the ask the actor takes after ask a, if there is one
NextTaken(a) == {n \in Asked : a < n /\ Taken(n) /\ \A k \in Asked : (a < k /\ k < n) => ~Taken(k)}

NoneTakenAfter(a) == \A k \in Asked : a < k => ~Taken(k)

Called == asks'[Len(asks')]

\* C7: with the accounts vault resolved, a RemoveAccount(id) is answered
\* RemovedAccount whether or not the id has a record (so a second one after a
\* first succeeds too), and a call of the public remove_account reaches the
\* actor instead of aborting.  (Stated for the ids that have a record id.)
C7_RemoveAccountSucceeds ==
    [][/\ (/\ Receiving("RemoveAccount")
            /\ mailbox' = Tail(mailbox)
            /\ accounts_vault # NoVault
            /\ account_id_to_record_id(Msg.account_id).kind = "Ok")
           => /\ asks'[Head(mailbox)].st = "answered"
              /\ asks'[Head(mailbox)].reply
                    = ReplyOk(StrongholdResponse("RemovedAccount", <<>>, <<>>))
       /\ (/\ Len(asks') = Len(asks) + 1
            /\ Called.fn = "remove_account"
            /\ Idle
            /\ accounts_vault # NoVault
            /\ account_id_to_record_id(Called.req.account_id).kind = "Ok")
           => Called.st = "queued"]_vars

\* remove_account was called after a bootstrap had succeeded, and aborted
C7_Unimplemented ==
    \E a \in Asked, b \in Asked :
        /\ b < a
        /\ IsBootstrap(b) /\ Succeeded(b)
        /\ accounts_vault # NoVault
        /\ asks[a].fn = "remove_account"
        /\ asks[a].st = "unimplemented"

\* ------------------------------------------------------------------------ C8

TakesAccountId == {"GetAccount", "StoreAccount", "RemoveAccount"}

\* C8: in every state of the actor, a GetAccount, StoreAccount or
\* RemoveAccount with an AccountIdentifier::Index is answered
\* AccountIdMustBeString and nothing is sent to the secure store for it.
C8_IndexRejected ==
    [][\A type \in TakesAccountId :
          (/\ Receiving(type)
           /\ mailbox' = Tail(mailbox)
           /\ Msg.account_id.tag = "Index")
          => /\ asks'[Head(mailbox)].st = "answered"
             /\ asks'[Head(mailbox)].reply = ReplyErr("AccountIdMustBeString")
             /\ sh_queue' = sh_queue]_vars

\* a StoreAccount with an Index identifier, taken before any bootstrap, has
\* panicked on unwrap()
C8_IndexPanicked ==
    \E a \in Asked :
        /\ Type(a) = "StoreAccount"
        /\ asks[a].req.account_id.tag = "Index"
        /\ asks[a].st = "panicked"
        /\ BootstrapsBefore(a) = {}

\* ------------------------------------------------------------------------ C9

PublicFns == {"load_or_create", "get_account", "get_accounts", "store_account"}

\* C9: when the handler's wait timed out, the caller of load_or_create,
\* get_account, get_accounts or store_account receives an error whose kind
\* is Timeout, not the kind of the other failures.
C9_TimeoutKind ==
    \A a \in Asked :
        (/\ asks[a].fn \in PublicFns
         /\ Answered(a)
         /\ asks[a].reply = ReplyErr("Timeout"))
        => LET res == public_result(asks[a].fn, asks[a].req, asks[a].reply)
           IN  /\ res.kind = "Err"
               /\ res.err.kind = "Timeout"

\* a timeout and an EmptySnapshot have reached callers as the same kind
C9_SameKind ==
    \E a \in Asked, b \in Asked :
        /\ asks[a].fn \in PublicFns /\ asks[b].fn \in PublicFns
        /\ Failed(a, "Timeout")
        /\ Failed(b, "EmptySnapshot")
        /\ public_result(asks[a].fn, asks[a].req, asks[a].reply).err.kind
              = public_result(asks[b].fn, asks[b].req, asks[b].reply).err.kind

\* ----------------------------------------------------------------------- C10

\* the ask reached the actor's mailbox
Sent(a) == asks[a].st # "unimplemented"

\* C10: the actor handles one request at a time: the request being handled
\* is the only one, with every SHRequest it sends and every result it waits
\* for, and a request is taken only after the handling of every request sent
\* before it has ended; the vault identifiers are those the request being
\* handled, or one that ended, has set.
C10_OneAtATime ==
    /\ \A a \in Asked : asks[a].st = "handling" => cur = a
    /\ \A a \in Asked : \A b \in Asked :
          (a < b /\ Sent(a) /\ Taken(b)) => Ended(a)
    /\ \A a \in Asked :
          (a \in {seed_by, accounts_by} /\ ~Ended(a)) => cur = a

\* a request waits in the mailbox while the handler of an earlier one waits
\* for a result of the secure store
C10_QueuedBehindWait ==
    /\ pc \in WaitLabels
    /\ cur \in Asked
    /\ asks[cur].st = "handling"
    /\ mailbox # <<>>
    /\ sh_queue # <<>>

\* ----------------------------------------------------------------------- C11

\* the LoadSnapshot and CreateSnapshot requests for the path that the actor
\* has taken
BootstrapsOf(path) ==
    {b \in Asked : IsBootstrap(b) /\ Taken(b) /\ asks[b].req.path = path}

\* C11: after any sequence of bootstraps the cached password of every path
\* is the password of the last LoadSnapshot or CreateSnapshot the actor took
\* for that path (whether it succeeded, failed or panicked later), and a path
\* no bootstrap named has no entry.
C11_PasswordOfLastBootstrap ==
    \A path \in Paths :
        LET bs == BootstrapsOf(path)
            last == CHOOSE b \in bs : \A c \in bs : c <= b
        IN  get_password(path) = IF bs = {} THEN "" ELSE asks[last].req.password

\* a path was bootstrapped twice with different passwords, the other path
\* once in between
C11_Replaced ==
    \E b1 \in Asked, b2 \in Asked, b3 \in Asked :
        /\ b1 < b2 /\ b2 < b3
        /\ Taken(b3)
        /\ IsBootstrap(b1) /\ IsBootstrap(b2) /\ IsBootstrap(b3)
        /\ asks[b1].req.path = asks[b3].req.path
        /\ asks[b1].req.path # asks[b2].req.path
        /\ asks[b1].req.password # asks[b3].req.password
        /\ get_password(asks[b3].req.path) = asks[b3].req.password
        /\ get_password(asks[b2].req.path) = asks[b2].req.password

\* ============================================ account sync and transfer
\* account/sync/mod.rs: AccountSynchronizer::execute with sync_addresses and
\* sync_transactions, SyncedAccount::select_inputs and transfer.  The ledger
\* client and the storage adapter are collaborators: a call to either may
\* fail, and the ledger may change between two operations.

\* the scan of sync_addresses is followed up to this address_index
MaxScan == 4

\* the operations followed in one run, and the transfers among them
MaxOps == 3

MaxTransfers == 1

\* crate::address::get_iota_address(&account, i, internal): the address value
\* derived for an index, the public and the internal one, each its own value
get_iota_address(index, internal) == 2 * index + (IF internal THEN 2 ELSE 1)

\* an address of somebody else: one of an index the scans do not reach
ForeignAddress == get_iota_address(MaxScan + 1, FALSE)

MessageIds == 1..4

\* the sum of the amounts (or balances) of a sequence, as fold(0, ..) adds
RECURSIVE SumAmount(_)
SumAmount(outputs) ==
    IF outputs = <<>> THEN 0 ELSE Head(outputs).amount + SumAmount(Tail(outputs))

RECURSIVE SumBalance(_)
SumBalance(addresses) ==
    IF addresses = <<>> THEN 0 ELSE Head(addresses).balance + SumBalance(Tail(addresses))

\* the elements of a set as a sequence, smallest first
RECURSIVE Sorted(_)
Sorted(S) ==
    IF S = {} THEN <<>>
    ELSE LET m == CHOOSE x \in S : \A y \in S : x <= y
         IN  <<m>> \o Sorted(S \ {m})

\* `for i in address_index..(address_index + gap_limit)`: the public and the
\* internal address of every index of the batch
generated_iota_addresses(address_index, gap_limit) ==
    [k \in 1..(2 * gap_limit) |->
        get_iota_address(address_index + (k - 1) \div 2, (k - 1) % 2 = 1)]

Range(f) == {f[k] : k \in DOMAIN f}

\* the sub-list of a list at the positions I, in list order
Sub(list, I) == [k \in 1..Cardinality(I) |-> list[Sorted(I)[k]]]

\* client.get_transactions().addresses(..).get(): the ledger's messages that
\* touch one of the addresses
get_transactions_addresses(addresses) ==
    LET ids == {m.id : m \in {t \in ledger.txs : t.address \in Range(addresses)}}
    IN  [k \in 1..Cardinality(ids) |->
            CHOOSE t \in ledger.txs : t.id = Sorted(ids)[k]]

\* client.get_addresses_balance(..): the ledger's outputs on the addresses
get_addresses_balance(addresses) ==
    SelectSeq(ledger.outputs, LAMBDA o : o.address \in Range(addresses))

\* one pass of the loop of sync_addresses: the Address records pushed (each
\* with key_index = address_index, which is then incremented), the
\* transactions found so far, and whether the loop breaks
sync_addresses_loop(t) ==
    LET iota_addresses == generated_iota_addresses(t.address_index, t.gap_limit)
        curr_found_transactions == get_transactions_addresses(iota_addresses)
        found_transactions == t.found_transactions \o curr_found_transactions
        generated_addresses_outputs == get_addresses_balance(iota_addresses)
        balance(a) == SumAmount(SelectSeq(generated_addresses_outputs,
                                          LAMBDA o : o.address = a))
        built == [k \in 1..Len(iota_addresses) |->
                     Address(iota_addresses[k], balance(iota_addresses[k]),
                             t.address_index + k - 1)]
    IN  [task |-> [t EXCEPT
                     !.address_index = @ + Len(iota_addresses),
                     !.generated_addresses = @ \o built,
                     !.found_transactions = found_transactions,
                     !.batches = Append(@, [first |-> t.address_index,
                                            gap_limit |-> t.gap_limit,
                                            hits |-> Len(curr_found_transactions),
                                            funds |-> SumAmount(generated_addresses_outputs)])],
         break |-> /\ found_transactions = <<>>
                   /\ \A k \in 1..Len(generated_addresses_outputs) :
                         generated_addresses_outputs[k].amount = 0]

\* ------------------------------------------------------- sync_transactions

\* a step 1 that copies `new_message_ids.contains(..)` into every message
sync_broadcasted_assign(messages, new_message_ids) ==
    [i \in DOMAIN messages |->
        [messages[i] EXCEPT !.broadcasted = messages[i].message_id \in Range(new_message_ids)]]

\* sync `broadcasted` state: the messages not broadcasted whose id is among
\* the new ids are set broadcasted
sync_broadcasted(messages, new_message_ids) ==
    [i \in DOMAIN messages |->
        IF ~messages[i].broadcasted /\ messages[i].message_id \in Range(new_message_ids)
        THEN [messages[i] EXCEPT !.broadcasted = TRUE]
        ELSE messages[i]]

\* the positions of the messages that are not confirmed, in list order
unconfirmed_messages(messages) ==
    Sorted({i \in DOMAIN messages : ~messages[i].confirmed})

\* client.is_confirmed(ids): a map from each id asked to the ledger's answer
is_confirmed(ids) == [id \in Range(ids) |-> id \in ledger.confirmed]

\* sync `confirmed` state: the unconfirmed messages are zipped with
\* confirmed_states.values(), which come in the map's order `order`, not in
\* the order the ids were asked in
sync_confirmed(messages, order) ==
    LET unconfirmed == unconfirmed_messages(messages)
        confirmed_states == is_confirmed([k \in DOMAIN unconfirmed |->
                                             messages[unconfirmed[k]].message_id])
        zipped == {k \in DOMAIN unconfirmed : k <= Len(order)}
    IN  [i \in DOMAIN messages |->
            IF \E k \in zipped : unconfirmed[k] = i /\ confirmed_states[order[k]]
            THEN [messages[i] EXCEPT !.confirmed = TRUE]
            ELSE messages[i]]

\* the orders confirmed_states.values() may come in
MapOrders(messages) ==
    Perms({messages[i].message_id : i \in Range(unconfirmed_messages(messages))})

\* client.get_transactions().hashes(ids).get(): the ledger's messages with
\* one of the ids, in the order asked.  For an id asked twice the client
\* answers once per time asked or once per id: execute leaves that to it.
get_transactions_hashes(ids) ==
    LET asked == SelectSeq(ids, LAMBDA id : \E t \in ledger.txs : t.id = id)
        each == [k \in DOMAIN asked |-> CHOOSE t \in ledger.txs : t.id = asked[k]]
        firsts == {k \in DOMAIN each : \A j \in 1..(k - 1) : each[j] # each[k]}
    IN  {each, Sub(each, firsts)}

\* Message::from_iota_message: the record of a message seen on the ledger
from_iota_message(message) == Message(message.id, TRUE, FALSE)

\* fn sync_transactions, with the order of the map and the answer of
\* get_transactions given
sync_transactions_messages(messages, new_message_ids, order, found_messages) ==
    LET synced == sync_confirmed(sync_broadcasted(messages, new_message_ids), order)
    IN  synced \o [k \in DOMAIN found_messages |-> from_iota_message(found_messages[k])]

\* execute, lines 184-191: the trunk of every found message that is the id
\* of no message of the account
new_message_ids(messages, found_messages) ==
    LET fresh == SelectSeq(found_messages,
                           LAMBDA f : \A i \in DOMAIN messages : messages[i].message_id # f.trunk)
    IN  [k \in DOMAIN fresh |-> fresh[k].trunk]

\* account.latest_address(): the address known last, none for an empty list
latest_address(addresses) ==
    IF addresses = <<>> THEN <<>> ELSE <<addresses[Len(addresses)]>>

\* ----------------------------------------------------------------- execute

\* the gap limits callers give: gap_limit(limit)
GapLimits == {0, 1, 2}

\* what an operation that ended leaves in the log: its result, the calls it
\* made to the ledger client, the storage adapter and the vault, in order,
\* the step that failed ("" if none did), and for a transfer what it was
\* given, selected and built
Ended_op(op, result, new_ledger, messages, calls, failed, given) ==
    [op |-> op, result |-> result, ledger |-> new_ledger, messages |-> messages,
     calls |-> calls, failed |-> failed, given |-> given]

\* what execute is given
Given_execute(t) ==
    [gap_limit |-> t.gap_limit, skip_persistance |-> t.skip_persistance,
     amount |-> 0, address |-> ForeignAddress, account |-> local_account,
     selected |-> <<>>, remainder |-> <<>>, utxos |-> <<>>, outputs |-> <<>>,
     stored |-> storage]

\* the log once the operation ended: one more, a SyncedAccount returned or
\* not, the ledger and the messages an execute that returned Ok left, and
\* what the operation did (`last` is kept until the next step)
Logged(ended) ==
    [ops |-> log.ops + 1,
     transfers |-> log.transfers + (IF ended.op = "transfer" THEN 1 ELSE 0),
     synced |-> (log.synced \/ (ended.op = "execute" /\ ended.result = "Ok")),
     since |-> IF ended.op = "execute" /\ ended.result = "Ok"
               THEN <<[ledger |-> ended.ledger, messages |-> ended.messages]>>
               ELSE <<>>,
     last |-> <<ended>>]

Busy == task.pc # "idle"

\* account.sync() with gap_limit(..) and, or not, skip_persistance():
\* AccountSynchronizer::new takes address_index = account.addresses().len()
execute ==
    \E limit \in GapLimits, skip \in BOOLEAN :
        /\ ~Busy
        /\ log.ops < MaxOps
        /\ task' = [IdleTask EXCEPT !.pc = "sync_addresses",
                                    !.address_index = Len(local_account.addresses),
                                    !.gap_limit = limit,
                                    !.skip_persistance = skip]
        /\ log' = [log EXCEPT !.last = <<>>]
        /\ UNCHANGED <<stronghold_vars, local_account, storage, ledger>>

\* execute returns Err: the task ends, storage is not touched
Abort(calls, acc) ==
    /\ task' = IdleTask
    /\ local_account' = acc
    /\ log' = Logged(Ended_op("execute", "Err", ledger, acc.messages, task.calls \o calls,
                              calls[Len(calls)], Given_execute(task)))
    /\ UNCHANGED <<stronghold_vars, storage, ledger>>

\* the calls of one pass of sync_addresses, and of the rest of execute
BatchCalls == <<"get_transactions", "get_addresses_balance">>

RestCalls == <<"is_confirmed", "get_transactions", "storage.set">>

\* one pass of the loop of sync_addresses; get_transactions or
\* get_addresses_balance may fail (`?`)
sync_addresses ==
    /\ task.pc = "sync_addresses"
    /\ task.address_index + task.gap_limit <= MaxScan
    /\ \/ \E failed \in DOMAIN BatchCalls : Abort(SubSeq(BatchCalls, 1, failed), local_account)
       \/ LET pass == sync_addresses_loop(task)
              t == [pass.task EXCEPT !.calls = @ \o BatchCalls]
          IN  /\ task' = IF pass.break THEN [t EXCEPT !.pc = "sync_transactions"] ELSE t
              /\ UNCHANGED <<stronghold_vars, local_account, storage, ledger, log>>

\* an execute that writes the account, with the addresses found, before it
\* asks the ledger for the confirmations
persist_early(t, acc, failed) == Account(t.generated_addresses, acc.messages)

\* execute, lines 197-201: storage_adapter.set(id, to_string(&self.account))
\* once every call before it returned; whatever skip_persistance is
persist(t, acc, failed) == IF failed = 0 THEN acc ELSE storage

\* the rest of execute once sync_addresses returned: new_message_ids,
\* sync_transactions, set_messages, set_addresses, the write to storage, and
\* latest_address().unwrap() for the SyncedAccount.  `failed` is the call of
\* RestCalls that fails, 0 if none does.
sync_transactions ==
    /\ task.pc = "sync_transactions"
    /\ LET ids == new_message_ids(local_account.messages, task.found_transactions)
           broadcasted == sync_broadcasted(local_account.messages, ids)
       IN  \E order \in MapOrders(broadcasted), failed \in 0..Len(RestCalls),
              found_messages \in get_transactions_hashes(ids) :
              LET messages == sync_transactions_messages(local_account.messages, ids, order,
                                                         found_messages)
                  acc == IF failed \in {1, 2}
                         THEN local_account
                         ELSE Account(task.generated_addresses, messages)
                  calls == task.calls \o (IF failed = 0 THEN RestCalls
                                           ELSE SubSeq(RestCalls, 1, failed))
                  result == IF failed # 0 THEN "Err"
                            ELSE IF latest_address(acc.addresses) = <<>> THEN "Panic"
                            ELSE "Ok"
              IN  /\ task' = IdleTask
                  /\ local_account' = acc
                  /\ storage' = persist(task, acc, failed)
                  /\ log' = Logged(Ended_op("execute", result, ledger, acc.messages, calls,
                                            IF failed = 0 THEN "" ELSE RestCalls[failed],
                                            Given_execute(task)))
                  /\ UNCHANGED <<stronghold_vars, ledger>>

\* crate::storage::get_account: the caller takes the stored account.  The
\* storage collaborator hands back the snapshot that was set, whole; the
\* serialized form is the adapter's and the Account type's own.
get_account_from_storage ==
    /\ ~Busy
    /\ local_account # storage
    /\ local_account' = storage
    /\ log' = [log EXCEPT !.last = <<>>]
    /\ UNCHANGED <<stronghold_vars, storage, ledger, task>>

\* the ledger confirms a message of the account, or no longer reports it
\* confirmed
ledger_confirms ==
    \E id \in {storage.messages[i].message_id : i \in DOMAIN storage.messages} :
        /\ ~Busy
        /\ log.ops < MaxOps
        /\ ledger' = [ledger EXCEPT !.confirmed =
                          IF id \in @ THEN @ \ {id} ELSE @ \cup {id}]
        /\ log' = [log EXCEPT !.last = <<>>]
        /\ UNCHANGED <<stronghold_vars, local_account, storage, task>>

\* ----------------------------------------------------------- select_inputs

\* input_selection::select_input(threshold, &mut available_addresses): the
\* selection strategy returns some of the candidates, their balances
\* covering the threshold; which ones is the strategy's choice.  None can be
\* returned when the candidates do not cover the threshold.
select_input(threshold, available_addresses) ==
    {chosen \in {Sub(available_addresses, I) : I \in SUBSET DOMAIN available_addresses} :
        SumBalance(chosen) >= threshold}

\* an Address equality that compares every field
eq_all_fields(a, b) == a = b

\* impl PartialEq for Address: equal when the address values are
eq(a, b) == a.address = b.address

\* select_inputs, line 241: the addresses of the account but `address`
available_addresses(account, address) ==
    SelectSeq(account.addresses, LAMBDA a : ~eq(a, address))

\* a remainder decided with >= in place of >
remainder_at_least(addresses, threshold, account) ==
    IF SumBalance(addresses) >= threshold
    THEN latest_address(account.addresses)
    ELSE <<>>

\* select_inputs, lines 246-250: Some(latest address) when the balances of
\* the selected addresses exceed the threshold, else None (here <<>>)
remainder(addresses, threshold, account) ==
    IF SumBalance(addresses) > threshold
    THEN latest_address(account.addresses)
    ELSE <<>>

\* fn select_inputs: every (addresses, remainder) it can return; the empty
\* set when select_input fails
select_inputs(threshold, account, address) ==
    {[addresses |-> chosen, remainder |-> remainder(chosen, threshold, account)] :
        chosen \in select_input(threshold, available_addresses(account, address))}

\* ---------------------------------------------------------------- transfer

\* client.get_outputs().addresses(..).get(): the ledger's outputs on the
\* addresses of the selected inputs
get_outputs(input_addresses) ==
    SelectSeq(ledger.outputs,
              LAMBDA o : \E k \in DOMAIN input_addresses : input_addresses[k].address = o.address)

\* `value - utxo.amount` on u64.  When utxo.amount > value a debug build
\* panics and a release build wraps; the wrapped amount, 2^64 + a - b, is
\* written a - b here: an amount below 0 stands for that amount + 2^64.
sub_u64(a, b) ==
    IF b <= a THEN {[kind |-> "Ok", amount |-> a - b]}
    ELSE {[kind |-> "Panic", amount |-> 0], [kind |-> "Ok", amount |-> a - b]}

\* transfer, lines 284-312, for the outputs left: every way the loop can end,
\* with the outputs built
RECURSIVE utxo_outputs(_, _, _, _, _)
utxo_outputs(utxos, value, remainder_address, current_output_sum, built) ==
    IF utxos = <<>> THEN {[kind |-> "Ok", outputs |-> built]}
    ELSE LET utxo == Head(utxos)
             amounts == IF current_output_sum + utxo.amount > value
                        THEN sub_u64(value, utxo.amount)
                        ELSE {[kind |-> "Ok", amount |-> utxo.amount]}
             to_remainder == current_output_sum = value
         IN  UNION {
               IF a.kind = "Panic" \/ (to_remainder /\ remainder_address = <<>>)
               THEN {[kind |-> "Panic", outputs |-> built]}
               ELSE IF a.amount = 0
               THEN {[kind |-> "Err", outputs |-> built]}
               ELSE utxo_outputs(Tail(utxos), value, remainder_address,
                                 current_output_sum + utxo.amount,
                                 Append(built,
                                        Output(IF to_remainder
                                               THEN remainder_address[1].address
                                               ELSE utxo.address,
                                               a.amount)))
               : a \in amounts}

\* the calls transfer makes, in order, each of which can fail: the storage
\* adapter's, the ledger client's, the vault's, and the building of the
\* transaction and of the message
TransferCalls ==
    <<"storage.get", "get_outputs", "get_tips", "with_stronghold", "build", "post_messages",
      "get_messages", "storage.set">>

\* transfer returned before call `next` of TransferCalls, or call `failed`
\* failed
CallsMade(made) == SubSeq(TransferCalls, 1, made)

\* the amounts and the recipients of the transfers made
Amounts == {0, 30, 50, 100, 110}

Recipients == {Address(ForeignAddress, 0, 0), Address(get_iota_address(0, FALSE), 0, 0),
               Address(get_iota_address(2, TRUE), 0, 0)}

\* the id the ledger gives the next message posted
NextMessageId ==
    LET used == {t.id : t \in ledger.txs}
                  \cup {storage.messages[i].message_id : i \in DOMAIN storage.messages}
                  \cup {local_account.messages[i].message_id : i \in DOMAIN local_account.messages}
    IN  IF MessageIds \ used = {} THEN 0
        ELSE CHOOSE id \in MessageIds \ used : \A other \in MessageIds \ used : id <= other

\* client.post_messages(&[message]): the ledger holds the message, on the
\* address of each of its outputs
post_messages(id, outputs) ==
    [ledger EXCEPT !.txs = @ \cup {IotaMessage(id, 0, outputs[k].address) : k \in DOMAIN outputs}]

\* how a transfer ends: `made` calls made, the step `failed` failed
Transferred(result, made, failed, new_ledger, stored, given) ==
    [result |-> result, calls |-> CallsMade(made), failed |-> failed, ledger |-> new_ledger,
     storage |-> stored, given |-> given]

\* what transfer is given, and what it selected and built as far as it got
Given_transfer(amount, address, account, selection, utxos, outputs) ==
    [gap_limit |-> 0, skip_persistance |-> FALSE,
     amount |-> amount, address |-> address.address, account |-> account,
     selected |-> IF selection = <<>> THEN <<>> ELSE selection[1].addresses,
     remainder |-> IF selection = <<>> THEN <<>> ELSE selection[1].remainder,
     utxos |-> utxos, outputs |-> outputs, stored |-> storage]

\* a transfer that reads the account before it looks at the amount
validate_late(amount, made) == amount = 0 /\ made = 1

\* transfer, lines 257-259: `if *transfer_obj.amount() == 0 { return Err(..) }`
\* is the first statement
validate(amount, made) == amount = 0 /\ made = 0

\* fn transfer: every way it can end when call `failed` of TransferCalls
\* fails (0: none does)
transfer_outcomes(amount, address, failed) ==
    LET account == storage
        nothing == Given_transfer(amount, address, account, <<>>, <<>>, <<>>)
        selections == select_inputs(amount, account, address)
        Err(made, step, given) == Transferred("Err", made, step, ledger, storage, given)
    IN  IF validate(amount, 0) THEN {Err(0, "validate", nothing)}
        ELSE IF failed = 1 THEN {Err(1, TransferCalls[1], nothing)}
        ELSE IF validate(amount, 1) THEN {Err(1, "validate", nothing)}
        ELSE IF selections = {} THEN {Err(1, "select_input", nothing)}
        ELSE UNION {
          LET utxos == get_outputs(selection.addresses)
              selected == Given_transfer(amount, address, account, <<selection>>, utxos, <<>>)
          IN  IF failed = 2 THEN {Err(2, TransferCalls[2], selected)}
              ELSE UNION {
                LET given == Given_transfer(amount, address, account, <<selection>>, utxos,
                                            built.outputs)
                    id == NextMessageId
                    posted == post_messages(id, built.outputs)
                    message == from_iota_message(IotaMessage(id, 0, address.address))
                IN  IF built.kind # "Ok"
                    THEN {Transferred(built.kind, 2, IF built.kind = "Err" THEN "build" ELSE "",
                                      ledger, storage, given)}
                    ELSE IF failed \in 3..6 THEN {Err(failed, TransferCalls[failed], given)}
                    ELSE IF failed \in 7..8
                    THEN {Transferred("Err", failed, TransferCalls[failed], posted, storage,
                                      given)}
                    ELSE {Transferred("Ok", Len(TransferCalls), "", posted,
                                      [account EXCEPT !.messages = Append(@, message)],
                                      given)}
                : built \in utxo_outputs(utxos, amount, selection.remainder, 0, <<>>)}
          : selection \in selections}

\* a SyncedAccount is what a successful execute returns
HasSyncedAccount == log.synced

\* synced_account.transfer(transfer_obj)
transfer ==
    \E amount \in Amounts, address \in Recipients, failed \in 0..Len(TransferCalls) :
        /\ ~Busy
        /\ log.ops < MaxOps
        /\ log.transfers < MaxTransfers
        /\ HasSyncedAccount
        /\ NextMessageId # 0
        /\ \E o \in transfer_outcomes(amount, address, failed) :
              /\ ledger' = o.ledger
              /\ storage' = o.storage
              /\ log' = Logged(Ended_op("transfer", o.result, o.ledger, o.storage.messages,
                                        o.calls, o.failed, o.given))
        /\ UNCHANGED <<stronghold_vars, local_account, task>>

\* ------------------------------------------------------------- the wallet

\* the accounts a caller may hold when it starts: none of its addresses
\* known yet, no message or two messages the ledger has yet to confirm
InitialAccounts ==
    {Account(<<>>, <<>>),
     Account(<<>>, <<Message(1, FALSE, FALSE), Message(2, TRUE, FALSE)>>)}

\* the ledgers: empty; funds on both addresses of index 0; a message on the
\* public address of index 0; funds on the public address of index 1
Ledgers ==
    {Ledger(<<>>, {}, {}),
     Ledger(<<Output(get_iota_address(0, FALSE), 30),
              Output(get_iota_address(0, TRUE), 80)>>, {}, {}),
     Ledger(<<>>, {IotaMessage(3, 1, get_iota_address(0, FALSE))}, {}),
     Ledger(<<Output(get_iota_address(1, FALSE), 10)>>, {}, {})}

\* an account in storage and in the caller's hands, the vault actor unused
InitWallet ==
    /\ ActorRuntime(CHOOSE snapshot \in DiskLayouts : snapshot.vaults = {})
    /\ local_account \in InitialAccounts
    /\ storage = local_account
    /\ ledger \in Ledgers
    /\ task = IdleTask
    /\ log = NoLog

NextWallet ==
    \/ execute
    \/ sync_addresses
    \/ sync_transactions
    \/ transfer
    \/ get_account_from_storage
    \/ ledger_confirms

SpecWallet == InitWallet /\ [][NextWallet]_vars

\* ------------------------------------------------- claims on the wallet

\* a batch of the scan on which the ledger reported no transaction and no
\* funds
EmptyBatch(batch) == batch.hits = 0 /\ batch.funds = 0

\* the scan of an account without addresses, with a gap limit of 1 or more
ScanFromZero ==
    /\ task.gap_limit >= 1
    /\ task.batches # <<>>
    /\ task.batches[1].first = 0

\* C12: address discovery from index 0 with a gap limit g >= 1 terminates on
\* a finite ledger, at the first batch of g indices with zero balance and
\* zero transaction hits, also when earlier batches found transactions: the
\* loop is never still running after a batch on which nothing was found.
C12_StopsAtEmptyBatch ==
    (task.pc = "sync_addresses" /\ ScanFromZero)
        => \A k \in DOMAIN task.batches : ~EmptyBatch(task.batches[k])

\* the scan found a transaction in its first batch, nothing in its second,
\* and goes on
C12_ScansPastEmptyBatch ==
    /\ task.pc = "sync_addresses"
    /\ ScanFromZero
    /\ Len(task.batches) = 2
    /\ task.batches[1].hits > 0
    /\ EmptyBatch(task.batches[2])

\* execute runs its last part for an account and a ledger that are as the
\* execute before, which returned Ok, left them
SecondSync ==
    /\ task.pc = "sync_transactions"
    /\ log.since # <<>>
    /\ log.since[1].ledger = ledger
    /\ log.since[1].messages = local_account.messages

\* the step with which execute returns Ok
ExecuteReturnsOk ==
    /\ task.pc = "sync_transactions"
    /\ log'.last # <<>>
    /\ log'.last[1].result = "Ok"

\* C13: sync is idempotent: a second execute right after one that returned
\* Ok, against an unchanged ledger, leaves the same set of Message records.
C13_SecondSyncSameMessages ==
    [][(SecondSync /\ ExecuteReturnsOk)
          => Range(local_account'.messages) = Range(local_account.messages)]_vars

\* a second execute against an unchanged ledger, with a message the first
\* one left unconfirmed
C13_SyncedTwice ==
    /\ SecondSync
    /\ \E i \in DOMAIN local_account.messages : ~local_account.messages[i].confirmed

\* the flags of `before` that are set are set in `after`, message by message
FlagsKept(before, after) ==
    \A i \in DOMAIN before :
        /\ i \in DOMAIN after
        /\ after[i].message_id = before[i].message_id
        /\ before[i].broadcasted => after[i].broadcasted
        /\ before[i].confirmed => after[i].confirmed

\* C14: across syncs the broadcasted flag and the confirmed flag of a message
\* never go from true to false: every step of execute leaves the flags that
\* were set in the account set, whatever the ledger reports.
C14_FlagsMonotonic ==
    [][Busy => FlagsKept(local_account.messages, local_account'.messages)]_vars

\* execute returned Ok for an account with a message that was broadcasted and
\* confirmed while the ledger reports it neither as new nor as confirmed, and
\* the message still is both
C14_KeptAgainstLedger ==
    /\ log.last # <<>>
    /\ log.last[1].op = "execute"
    /\ log.last[1].result = "Ok"
    /\ \E i \in DOMAIN log.last[1].given.account.messages :
          LET m == log.last[1].given.account.messages[i]
          IN  /\ m.broadcasted /\ m.confirmed
              /\ m.message_id \notin ledger.confirmed
              /\ local_account.messages[i] = m

\* every (addresses, remainder) select_inputs can return for the stored
\* account, which transfer reads, a threshold and a destination
Selections(threshold, address) == select_inputs(threshold, storage, address)

\* the last operation was a transfer that selected its inputs
TransferSelected ==
    /\ log.last # <<>>
    /\ log.last[1].op = "transfer"
    /\ log.last[1].given.selected # <<>>

\* C15: no input address returned by select_inputs has the address value of
\* the destination, whatever balance or key index the account records for
\* that address.
C15_DestinationNotSelected ==
    \A threshold \in Amounts, address \in Recipients :
        \A selection \in Selections(threshold, address) :
            \A k \in DOMAIN selection.addresses :
                selection.addresses[k].address # address.address

\* a transfer selected inputs for a destination of which the account holds a
\* record with another balance
C15_OwnAddressAsDestination ==
    /\ TransferSelected
    /\ \E i \in DOMAIN log.last[1].given.account.addresses :
          LET a == log.last[1].given.account.addresses[i]
          IN  a.address = log.last[1].given.address /\ a.balance > 0

TransferReturnedOk ==
    /\ TransferSelected
    /\ log.last[1].result = "Ok"

\* the outputs the last transfer built for the latest address of the account
\* it read
OutputsToLatest ==
    LET given == log.last[1].given
        latest == given.account.addresses[Len(given.account.addresses)]
    IN  SelectSeq(given.outputs, LAMBDA o : o.address = latest.address)

\* C17: in the outputs transfer builds, no output goes to the remainder
\* address when the selected inputs hold exactly the amount, and exactly one
\* does, carrying the surplus, when they hold more; the remainder address is
\* the latest address of the account.
C17_RemainderOutput ==
    TransferReturnedOk =>
        LET given == log.last[1].given
            total == SumBalance(given.selected)
        IN  /\ total = given.amount => OutputsToLatest = <<>>
            /\ total > given.amount =>
                  /\ Len(OutputsToLatest) = 1
                  /\ OutputsToLatest[1].amount = total - given.amount

\* a transfer returned Ok whose inputs hold more than the amount, no amount
\* wrapped, and none of its outputs goes to the remainder address
C17_SurplusKeptByInputs ==
    /\ TransferReturnedOk
    /\ SumBalance(log.last[1].given.selected) > log.last[1].given.amount
    /\ log.last[1].given.remainder # <<>>
    /\ \A k \in DOMAIN log.last[1].given.outputs : log.last[1].given.outputs[k].amount > 0
    /\ OutputsToLatest = <<>>

\* the step is a transfer, from its call to its return
TransferStep ==
    /\ log'.ops = log.ops + 1
    /\ log'.last[1].op = "transfer"

\* C18: a transfer of amount 0 fails with the validation error before any
\* storage read, ledger call or vault call, and leaves the stored account as
\* it was.
C18_ZeroAmountRejectedFirst ==
    [][(TransferStep /\ log'.last[1].given.amount = 0)
          => /\ log'.last[1].result = "Err"
             /\ log'.last[1].failed = "validate"
             /\ log'.last[1].calls = <<>>
             /\ storage' = storage
             /\ ledger' = ledger]_vars

\* a transfer of amount 0 returned
C18_ZeroAmountTransfer ==
    /\ log.last # <<>>
    /\ log.last[1].op = "transfer"
    /\ log.last[1].given.amount = 0
    /\ log.last[1].result = "Err"

\* the step is the return of execute or a whole transfer
OperationEnds == log'.ops = log.ops + 1

\* the positions of the write of the account in the calls of an operation
Writes(calls) == {k \in DOMAIN calls : calls[k] = "storage.set"}

\* the failures before the write: of the input selection, of a call to the
\* ledger, of the building of the transaction
FailuresBeforeWrite ==
    {"select_input", "get_outputs", "get_tips", "build", "post_messages", "get_messages",
     "get_transactions", "get_addresses_balance", "is_confirmed"}

\* C19: transfer and execute write the account to storage at most once and
\* only as their last step; when the input selection, a call to the ledger
\* or the building of the transaction fails, the operation returns an error
\* and the stored account is what it was before.
C19_WriteOnceAtTheEnd ==
    [][OperationEnds =>
          LET ended == log'.last[1]
          IN  /\ Writes(ended.calls) \subseteq {Len(ended.calls)}
              /\ storage' # storage => Writes(ended.calls) # {}
              /\ ended.failed \in FailuresBeforeWrite =>
                    /\ ended.result = "Err"
                    /\ Writes(ended.calls) = {}
                    /\ storage' = storage]_vars

\* a transfer that posted its message, or an execute of an account with
\* addresses, returned the error of a later call to the ledger
C19_FailedHalfWay ==
    /\ log.last # <<>>
    /\ log.last[1].result = "Err"
    /\ \/ log.last[1].op = "transfer" /\ log.last[1].failed = "get_messages"
       \/ log.last[1].op = "execute" /\ log.last[1].failed = "is_confirmed"
                                      /\ log.last[1].given.account.addresses # <<>>

\* C20: an execute on which skip_persistance() was called writes nothing to
\* storage: the stored account after the sync is the stored account before.
C20_SkipPersistanceSkipsWrite ==
    [][(Busy /\ task.skip_persistance) => storage' = storage]_vars

\* an execute with skip_persistance() returned, and the stored account is
\* not the one it found
C20_WroteAlthoughSkipped ==
    /\ log.last # <<>>
    /\ log.last[1].op = "execute"
    /\ log.last[1].given.skip_persistance
    /\ storage # log.last[1].given.stored

\* C21: the remainder address select_inputs returns, when it returns one, is
\* not the recipient address, also when the recipient is the latest address
\* of the account.
C21_RemainderNotRecipient ==
    \A threshold \in Amounts, address \in Recipients :
        \A selection \in Selections(threshold, address) :
            selection.remainder # <<>>
                => selection.remainder[1].address # address.address

\* a transfer to the latest address of the account selected inputs that hold
\* more than the amount, and the remainder address is the recipient
C21_RemainderIsRecipient ==
    /\ TransferSelected
    /\ log.last[1].given.remainder # <<>>
    /\ log.last[1].given.remainder[1].address = log.last[1].given.address
    /\ \A k \in DOMAIN log.last[1].given.selected :
          log.last[1].given.selected[k].address # log.last[1].given.address

\* --------------------------------- execute once sync_addresses has returned

\* the messages an account may hold when execute reconciles them: none, or
\* the messages 1 and 2 with any flags
MessageRecords == {Message(id, b, c) : id \in 1..2, b \in BOOLEAN, c \in BOOLEAN}

ReconcileAccounts ==
    {Account(<<>>, messages) :
        messages \in {<<>>} \cup {<<m>> : m \in MessageRecords}
                     \cup {<<m, n>> : m \in {x \in MessageRecords : x.message_id = 1},
                                      n \in {x \in MessageRecords : x.message_id = 2}}}

\* the ledger's messages on the addresses of index 0: message 1, and the
\* messages 3 and 4 that both have message 5 as their trunk, and message 5
ReconcileTxs ==
    {IotaMessage(1, 3, get_iota_address(0, FALSE)),
     IotaMessage(3, 5, get_iota_address(0, FALSE)),
     IotaMessage(4, 5, get_iota_address(0, TRUE)),
     IotaMessage(5, 1, get_iota_address(0, TRUE))}

\* the ledger's messages, by id
ReconcileSorted ==
    [k \in 1..Cardinality(ReconcileTxs) |->
        CHOOSE t \in ReconcileTxs : t.id = Sorted({m.id : m \in ReconcileTxs})[k]]

\* the (addresses, messages) sync_addresses hands to execute, lines 181-182:
\* the addresses of index 0 and some of the ledger's messages on them
FoundMessages ==
    {Sub(ReconcileSorted, I) : I \in SUBSET DOMAIN ReconcileSorted}

\* execute at line 184, sync_addresses having returned
InitReconcile ==
    /\ ActorRuntime(CHOOSE snapshot \in DiskLayouts : snapshot.vaults = {})
    /\ local_account \in ReconcileAccounts
    /\ storage = local_account
    /\ \E confirmed \in SUBSET (1..2) : ledger = Ledger(<<>>, ReconcileTxs, confirmed)
    /\ \E found \in FoundMessages :
          task = [IdleTask EXCEPT
                    !.pc = "sync_transactions",
                    !.address_index = 2,
                    !.gap_limit = 1,
                    !.generated_addresses = <<Address(get_iota_address(0, FALSE), 0, 0),
                                              Address(get_iota_address(0, TRUE), 0, 1)>>,
                    !.found_transactions = found,
                    !.calls = BatchCalls]
    /\ log = NoLog

NextReconcile == sync_transactions

SpecReconcile == InitReconcile /\ [][NextReconcile]_vars

\* the identifiers of the transactions the scan discovered
Discovered == {task.found_transactions[k].id : k \in DOMAIN task.found_transactions}

C23_ConfirmedByOwnAnswer ==
    [][ExecuteReturnsOk =>
          \A i \in DOMAIN local_account.messages :
              ~local_account.messages[i].confirmed
                  => (local_account'.messages[i].confirmed
                        <=> local_account.messages[i].message_id \in ledger.confirmed)]_vars

\* execute returned Ok and left confirmed a message, unconfirmed before, that
\* the ledger does not report confirmed
C23_ConfirmedByOtherAnswer ==
    /\ log.last # <<>>
    /\ log.last[1].op = "execute"
    /\ log.last[1].result = "Ok"
    /\ \E i \in DOMAIN log.last[1].given.account.messages :
          /\ ~log.last[1].given.account.messages[i].confirmed
          /\ local_account.messages[i].confirmed
          /\ local_account.messages[i].message_id \notin ledger.confirmed

\* no two records of the list have the same message identifier
DistinctIds(messages) ==
    \A i, j \in DOMAIN messages :
        messages[i].message_id = messages[j].message_id => i = j

C25_ContiguousBatches ==
    \A k \in DOMAIN task.batches :
        task.batches[k].first = task.batches[1].first + (k - 1) * task.batches[k].gap_limit

\* the scan made a second batch, which starts two gap limits after the first
C25_SkippedIndices ==
    /\ Len(task.batches) >= 2
    /\ task.gap_limit >= 1
    /\ task.batches[2].first = task.batches[1].first + 2 * task.gap_limit

\* the index an address value was derived from
derivation_index(address) == (address - 1) \div 2

\* C26: every Address record address discovery produces has the derivation
\* index of its address as key_index, so the public and the internal address
\* of an index carry the same key_index.
C26_KeyIndexIsDerivationIndex ==
    \A addresses \in {task.generated_addresses, local_account.addresses} :
        \A k \in DOMAIN addresses :
            addresses[k].key_index = derivation_index(addresses[k].address)

\* the scan built the records of the two addresses of an index, with
\* different key_index
C26_TwoKeyIndicesForOneIndex ==
    \E i, j \in DOMAIN task.generated_addresses :
        /\ derivation_index(task.generated_addresses[i].address)
             = derivation_index(task.generated_addresses[j].address)
        /\ task.generated_addresses[i].key_index # task.generated_addresses[j].key_index

\* the amount to allocate for the k-th spendable output: all of it when the
\* running sum with it does not exceed the requested amount, else what is
\* still missing
Allocation(utxos, value, k) ==
    LET running == SumAmount(SubSeq(utxos, 1, k - 1))
    IN  IF running + utxos[k].amount <= value THEN utxos[k].amount ELSE value - running

\* C27: the amount transfer allocates for each spendable output is the full
\* amount of the output when the running sum with it does not exceed the
\* requested amount, and the remaining shortfall otherwise; the computation
\* does not underflow (no panic, no wrapped amount) and the amounts allocated
\* do not exceed the requested amount.
C27_AllocatedAmounts ==
    TransferSelected =>
        LET given == log.last[1].given
        IN  /\ log.last[1].result # "Panic"
            /\ \A k \in DOMAIN given.outputs :
                  /\ given.outputs[k].amount >= 0
                  /\ given.outputs[k].amount = Allocation(given.utxos, given.amount, k)
            /\ SumAmount(given.outputs) <= given.amount

\* a transfer returned Ok with an output, not the first, for which it took
\* the requested amount less the amount of the spendable output
C27_AmountLessOutput ==
    /\ TransferReturnedOk
    /\ \E k \in DOMAIN log.last[1].given.outputs :
          /\ k > 1
          /\ log.last[1].given.outputs[k].amount
               = log.last[1].given.amount - log.last[1].given.utxos[k].amount
          /\ log.last[1].given.outputs[k].amount
               # Allocation(log.last[1].given.utxos, log.last[1].given.amount, k)

\* C28: every output transfer builds while the running sum is below the
\* requested amount goes to the recipient address, never back to the address
\* the spent output came from, and every output built once the running sum
\* has reached the requested amount goes to the remainder address.
C28_OutputDestinations ==
    TransferSelected =>
        LET given == log.last[1].given
        IN  \A k \in DOMAIN given.outputs :
                IF SumAmount(SubSeq(given.utxos, 1, k - 1)) < given.amount
                THEN given.outputs[k].address = given.address
                ELSE /\ given.remainder # <<>>
                     /\ given.outputs[k].address = given.remainder[1].address

\* a transfer returned Ok and each of its outputs goes to the address its
\* spendable output came from, none to the recipient
C28_PaidBackToInputs ==
    /\ TransferReturnedOk
    /\ log.last[1].given.outputs # <<>>
    /\ \A k \in DOMAIN log.last[1].given.outputs :
          /\ log.last[1].given.outputs[k].address = log.last[1].given.utxos[k].address
          /\ log.last[1].given.outputs[k].address # log.last[1].given.address

\* the address values of a list of Address records
Values(addresses) == {addresses[k].address : k \in DOMAIN addresses}

\* C29: after an execute that returned Ok the address list of the account
\* holds every address it held before together with the addresses the scan
\* discovered: a sync that starts at the latest known index drops no
\* address.
C29_KnownAddressesKept ==
    [][ExecuteReturnsOk =>
          Values(local_account'.addresses)
              = Values(local_account.addresses) \cup Values(task.generated_addresses)]_vars

\* an execute of an account that knew addresses returned Ok, and the account
\* holds none of them any more
C29_KnownAddressesDropped ==
    /\ log.last # <<>>
    /\ log.last[1].op = "execute"
    /\ log.last[1].result = "Ok"
    /\ log.last[1].given.account.addresses # <<>>
    /\ Values(log.last[1].given.account.addresses) \cap Values(local_account.addresses) = {}

\* the step is a wait_for_result! that takes a result from the channel
TakesResult ==
    /\ pc \in WaitLabels
    /\ result_ch # <<>>
    /\ result_ch' = Tail(result_ch)

\* C30: every result a handler takes from the result channel was produced by
\* a sub-request sent while handling the same request: a result that arrives
\* after an earlier request timed out, or that answers a sub-request nobody
\* waited for, is never taken as the answer to a later request.
C30_ResultsOfOwnSubRequests ==
    [][TakesResult => Head(result_ch).by = cur]_vars

\* a handler waits, and first in the channel is the result of a sub-request
\* of an earlier request, which timed out
C30_StaleResultFirst ==
    /\ pc \in WaitLabels
    /\ result_ch # <<>>
    /\ Head(result_ch).by # cur
    /\ asks[Head(result_ch).by].reply = ReplyErr("Timeout")

\* the records GetAccount(account_id) reads: those of its record identifier
RecordsRead(records, account_id) ==
    {r \in records : r.id = account_id_to_record_id(account_id).id}

\* the stronghold client carries out the WriteData of a StoreAccount or the
\* RevokeData of a RemoveAccount
WritesOrRevokes ==
    /\ sh_queue # <<>>
    /\ sh_queue' = Tail(sh_queue)
    /\ Head(sh_queue).type \in {"WriteData", "RevokeData"}

\* C31: for two distinct account ids A and B, StoreAccount(A, x) and
\* RemoveAccount(A) leave the record read by GetAccount(B) unchanged: distinct
\* account ids have distinct record identifiers, and no record is shared by
\* two ids.
C31_OtherRecordsUnchanged ==
    [][\A B \in AccountIdentifiers :
          (/\ WritesOrRevokes
           /\ asks[Head(sh_queue).by].req.account_id # B
           /\ account_id_to_record_id(B).kind = "Ok")
          => RecordsRead(sh_records', B) = RecordsRead(sh_records, B)]_vars

\* StoreAccount succeeded for two distinct account ids, and the secure store
\* holds one record for both
C31_RecordOfTwoIds ==
    \E i, j \in Asked :
        /\ Type(i) = "StoreAccount" /\ Succeeded(i)
        /\ Type(j) = "StoreAccount" /\ Succeeded(j)
        /\ ~SameId(i, j)
        /\ sh_queue = <<>>
        /\ Cardinality(RecordsRead(sh_records, asks[i].req.account_id)
                         \cup RecordsRead(sh_records, asks[j].req.account_id)) = 1

\* the operation that ended submitted its message: post_messages was called
\* and is not the call that failed
Submitted(ended) ==
    /\ ended.op = "transfer"
    /\ \E k \in DOMAIN ended.calls : ended.calls[k] = "post_messages"
    /\ ended.failed # "post_messages"

\* C32: whenever the submission of the built message to the ledger succeeds,
\* transfer ends with the Message record appended to the account and the
\* account written to storage: no message is on the ledger without being in
\* the stored account.
C32_SubmittedIsStored ==
    [][(TransferStep /\ Submitted(log'.last[1]))
          => /\ log'.last[1].result = "Ok"
             /\ \E i \in DOMAIN storage'.messages :
                   storage'.messages[i].message_id = NextMessageId]_vars

\* a transfer submitted its message and returned the error of a later call:
\* the ledger holds, on the address of an output the transfer built, a
\* message the stored account does not have
C32_SubmittedNotStored ==
    /\ log.last # <<>>
    /\ Submitted(log.last[1])
    /\ log.last[1].failed \in {"get_messages", "storage.set"}
    /\ storage = log.last[1].given.stored
    /\ \E t \in ledger.txs :
          /\ \E k \in DOMAIN log.last[1].given.outputs :
                log.last[1].given.outputs[k].address = t.address
          /\ \A i \in DOMAIN storage.messages : storage.messages[i].message_id # t.id

====
